---- MODULE Spec2Model ----
(***************************************************************************)
(* Model of go-solana-tx-explorer: the transaction-enrichment pipeline     *)
(* TransactionService.FetchAccountTransactions (src/transactions.go).      *)
(*                                                                         *)
(* One call of FetchAccountTransactions is modelled as a set of Go         *)
(* goroutines: the calling goroutine (listing, launch loop, collect loop,  *)
(* assemble loop, return), one fetch goroutine per launched index, and the *)
(* goroutine that waits on the WaitGroup and closes the result channel.    *)
(* Go indices are 0-based; the signature list is a TLA+ sequence, so the   *)
(* signature of index j is signatures[j + 1].                              *)
(***************************************************************************)
EXTENDS Integers, Sequences, FiniteSets, Bags, TLC

(* ------------------------------ bounds --------------------------------- *)

\* Longest signature list the listing call returns in the model.
MaxSigs == 3

\* Longest signature list in the specifications with fairness.
MaxLiveSigs == 2

(* --------------------------- values and inputs ------------------------- *)

\* A Go nil pointer / nil error / absent optional; Some(v) is a present one.
Nil == <<>>

Some(v) == <<v>>

\* The accounts FetchAccountTransactions may be called for.
Accounts == {"acctX"}

\* The limit argument: negative, zero, below and equal to the longest list
\* (and so above the length of every shorter list).
Limits == (0 - 1) .. MaxSigs

\* Signature.String() of the k-th signature the ledger knows.
SigName(k) == "sig" \o ToString(k)

\* The k-th rpc.TransactionSignature of the address history, newest first:
\* slots decrease along the history, and every second entry has no block
\* time.
SigRef(k) ==
    [Signature |-> SigName(k),
     Slot |-> 100 - k,
     BlockTime |-> IF k % 2 = 0 THEN Some(1700 - k) ELSE Nil]

\* The lists GetSignaturesForAddress may return: the first n entries of the
\* history, or (the code neither reorders nor deduplicates what it is
\* given) the same with the first entry delivered twice.
SigLists ==
    { [k \in 1 .. n |-> SigRef(k)] : n \in 0 .. MaxSigs }
    \cup { [k \in 1 .. n |-> SigRef(IF k = 1 THEN 1 ELSE k - 1)] : n \in 2 .. MaxSigs }

\* What GetTransaction can return for a signature: an error, or a result
\* whose Meta belongs to that signature and whose Transaction payload is
\* absent, decodable or undecodable.
Responses(sig) ==
    { [err |-> Some("rpc error"), meta |-> Nil, payload |-> "none"],
      [err |-> Nil, meta |-> Some([metaOf |-> sig.Signature]), payload |-> "none"],
      [err |-> Nil, meta |-> Some([metaOf |-> sig.Signature]), payload |-> "decodable"],
      [err |-> Nil, meta |-> Some([metaOf |-> sig.Signature]), payload |-> "undecodable"] }

\* A response no call has produced yet.
NoResponse == [err |-> Nil, meta |-> Nil, payload |-> "pending"]

(* ------------------------------- state --------------------------------- *)

VARIABLES
    account,        \* argument: the queried account
    limit,          \* argument: the limit
    pc,             \* position of the calling goroutine
    signatures,     \* result of GetSignaturesForAddress
    processCount,   \* local processCount
    i,              \* loop variable of the launch loop and the assemble loop
    task,           \* per index: the fetch goroutine's position and history
    wg,             \* the WaitGroup counter
    resultChan,     \* the buffered channel of transactionResult
    closer,         \* position of the goroutine that waits and closes
    resultMap,      \* map[int]TransactionInfo
    results,        \* []TransactionInfo
    origin,         \* history: the map key each element of results came from
    ret,            \* the returned (batch, error), Nil before the return
    out,            \* bag of lines written to the log and to stdout
    panicked,       \* a goroutine panicked (send on / close of closed channel)
    listErr,        \* the error of the listing call, Nil when it succeeded
    inverted,       \* history: some task sent while a lower index was in flight
    cancelled,      \* the ctx argument is done
    cancelSeen,     \* history: the indices in flight when ctx became done
    env,            \* the process environment: name -> Nil or Some(value)
    dotenv,         \* the .env file: Nil when unreadable, else name -> Nil/Some
    envLog,         \* lines logged by the configuration getters
    exit,           \* Nil, or Some(message) once log.Fatal ended the process
    wsRet,          \* the value returned by GetWSURL, Nil before
    mpc,            \* position of main
    mRpcURL,        \* main's rpcURL, the endpoint of its client
    mAccount,       \* main's account, Nil before it is derived
    mTxs,           \* main's (accountTxs, err), Nil before the fetch
    requests,       \* the requests main has issued, in order
    mLog,           \* the lines main has logged, in order
    rendered,       \* the transaction report has been rendered
    listener,       \* the listener goroutine has been started
    lpc,            \* position of ListenWalletTransactions
    lHttpURL,       \* the listener's httpURL, the endpoint of its client
    history,        \* the wallet's signatures on the ledger, newest first
    hist0,          \* history: the ledger's list when listening started
    seen,           \* the listener's seen set
    reported,       \* history: the signatures logged as observed, in order
    lastPoll,       \* history: the list and the reports of the last poll
    pollErrors,     \* the number of "poll error" lines logged
    lCancelled,     \* the listener's context is done
    lRet,           \* the listener's return value, Nil before
    registryOnce,   \* sync.Once: "idle", "running" or "done"
    registryData,   \* the package's registry map, Nil while it is nil
    registryErr,    \* the package's registry error, Nil while it is nil
    merged,         \* the running function's merged map
    rcPos,          \* position of each caller of LoadDefaultRegistry
    rCtx,           \* each caller's context is done
    rRet,           \* the value each caller's last call returned, Nil before
    rCalls,         \* the number of calls each caller has begun
    runs,           \* history: how many times the function passed to Do began
    fetches,        \* history: the sources requested, in order
    loaded,         \* history: the map each source's loader returned, Nil if none
    ppc,            \* position of PrintUserTokens
    pItems,         \* the token accounts of the decoded response, Nil before
    pHoldings,      \* the holdings passed to the formatter, Nil before
    pRet            \* the value PrintUserTokens returned, Nil before

\* The state of one call of FetchAccountTransactions.
pipeVars == << account, limit, pc, signatures, processCount, i, task, wg,
               resultChan, closer, resultMap, results, origin, ret, out,
               panicked, listErr, inverted >>

\* The state of the ctx argument.
ctxVars == << cancelled, cancelSeen >>

\* The configuration of the process.
envVars == << env, dotenv, envLog, exit >>

\* The state of a call of GetWSURL.
wsVars == << wsRet >>

\* The state of main.
mainVars == << mpc, mRpcURL, mAccount, mTxs, requests, mLog, rendered,
               listener >>

\* The state of the listener and of the ledger it polls.
pollVars == << lpc, lHttpURL, history, hist0, seen, reported, lastPoll,
               pollErrors, lCancelled, lRet >>

\* The state of the token registry and of its callers.
regVars == << registryOnce, registryData, registryErr, merged, rcPos, rCtx, rRet,
              rCalls, runs, fetches, loaded >>

\* The state of PrintUserTokens.
portVars == << ppc, pItems, pHoldings, pRet >>

\* The state of the other parts of the program.
otherVars == << envVars, wsVars, mainVars, pollVars, regVars, portVars >>

vars == << pipeVars, ctxVars, otherVars >>

(* ------------------------------ helpers -------------------------------- *)

\* Index set of a list of length n (Go indices).
Indices(n) == 0 .. (n - 1)

\* Variant: every goroutine reads the signature through a variable shared
\* with the loop and sees the first entry.
SigAt_Captured(j) == signatures[1]

\* signatures[j] in Go.
SigAt(j) == signatures[j + 1]

\* map assignment m[k] = v.
MapPut(m, k, v) == [x \in (DOMAIN m) \cup {k} |-> IF x = k THEN v ELSE m[x]]

\* A line of diagnostic output.
Line(kind, sig, n) == [kind |-> kind, sig |-> sig, n |-> n]

Emit(line) == out (+) SetToBag({line})

\* Variant: a zero limit is taken as a limit.
ProcessCount_ZeroLimit(n, lim) == IF lim >= 0 /\ lim < n THEN lim ELSE n

\* Variant: the limit is not applied.
ProcessCount_IgnoreLimit(n, lim) == n

\* processCount := len(signatures); if limit > 0 && limit < processCount
\* { processCount = limit }
ProcessCount(n, lim) == IF lim > 0 /\ lim < n THEN lim ELSE n

\* The zero value of TransactionInfo.
ZeroInfo ==
    [Signature |-> "", Slot |-> 0, BlockTime |-> Nil, Meta |-> Nil,
     Transaction |-> Nil]

\* txResult.Transaction.GetTransaction(): the parsed transaction, or Nil
\* when the payload is absent or does not decode.
ParsedTx(sig, r) ==
    IF r.payload = "decodable" THEN Some([txOf |-> sig.Signature]) ELSE Nil

\* Variant: the block time of the signature reference is not copied.
TaskResult_NoBlockTime(index, sig, r) ==
    IF r.err # Nil
    THEN [info |-> ZeroInfo, index |-> index, err |-> r.err]
    ELSE [info |-> [Signature |-> sig.Signature,
                    Slot |-> sig.Slot,
                    BlockTime |-> Nil,
                    Meta |-> r.meta,
                    Transaction |-> ParsedTx(sig, r)],
          index |-> index,
          err |-> Nil]

\* Variant: every goroutine tags its result with the index of the first.
TaskResult_SharedIndex(index, sig, r) ==
    IF r.err # Nil
    THEN [info |-> ZeroInfo, index |-> 0, err |-> r.err]
    ELSE [info |-> [Signature |-> sig.Signature,
                    Slot |-> sig.Slot,
                    BlockTime |-> sig.BlockTime,
                    Meta |-> r.meta,
                    Transaction |-> ParsedTx(sig, r)],
          index |-> 0,
          err |-> Nil]

\* Variant: a decode failure is reported as the task's error.
TaskResult_DecodeFatal(index, sig, r) ==
    IF r.err # Nil \/ r.payload = "undecodable"
    THEN [info |-> ZeroInfo, index |-> index, err |-> Some("decode error")]
    ELSE [info |-> [Signature |-> sig.Signature,
                    Slot |-> sig.Slot,
                    BlockTime |-> sig.BlockTime,
                    Meta |-> r.meta,
                    Transaction |-> ParsedTx(sig, r)],
          index |-> index,
          err |-> Nil]

\* The transactionResult a fetch goroutine sends for response r.
TaskResult(index, sig, r) ==
    IF r.err # Nil
    THEN [info |-> ZeroInfo, index |-> index, err |-> r.err]
    ELSE [info |-> [Signature |-> sig.Signature,
                    Slot |-> sig.Slot,
                    BlockTime |-> sig.BlockTime,
                    Meta |-> r.meta,
                    Transaction |-> ParsedTx(sig, r)],
          index |-> index,
          err |-> Nil]

\* The lines a fetch goroutine logs for response r.
TaskLog(sig, r) ==
    IF r.err # Nil
    THEN Emit(Line("Failed to get transaction", sig.Signature, 0))
    ELSE IF r.payload = "undecodable"
         THEN Emit(Line("Failed to parse transaction", sig.Signature, 0))
         ELSE out

(* ------------------------------- Init ---------------------------------- *)

PipeInit ==
    /\ account \in Accounts
    /\ limit \in Limits
    /\ pc = "list"
    /\ signatures = << >>
    /\ processCount = 0
    /\ i = 0
    /\ task = << >>
    /\ wg = 0
    /\ resultChan = [buf |-> << >>, cap |-> 0, closed |-> FALSE]
    /\ closer = "none"
    /\ resultMap = << >>
    /\ results = << >>
    /\ origin = << >>
    /\ ret = Nil
    /\ out = EmptyBag
    /\ panicked = FALSE
    /\ listErr = Nil
    /\ inverted = FALSE

\* The ctx argument is not done when the call starts.
CtxInit ==
    /\ cancelled = FALSE
    /\ cancelSeen = {}

\* Strings are sequences of characters; the empty string.
EmptyStr == << >>

\* The names the program reads from the environment.
EnvNames == {"RPC_URL", "WALLET_ADDRESS", "WS_URL"}

\* The URL schemes GetWSURL tells apart.
HttpsScheme == << "h", "t", "t", "p", "s", ":", "/", "/" >>

HttpScheme == << "h", "t", "t", "p", ":", "/", "/" >>

WssScheme == << "w", "s", "s", ":", "/", "/" >>

WsScheme == << "w", "s", ":", "/", "/" >>

\* Beginnings of an endpoint value: the four schemes, one in upper case,
\* a cut-off one, a foreign one, and none.
UrlHeads ==
    { HttpsScheme, HttpScheme, WssScheme, WsScheme,
      << "H", "T", "T", "P", "S", ":", "/", "/" >>,
      << "h", "t", "t", "p", ":", "/" >>,
      << "f", "t", "p", ":", "/", "/" >>,
      EmptyStr }

\* Ends of an endpoint value: nothing, a host, and a host followed by a
\* query that itself holds a scheme.
UrlTails ==
    { EmptyStr,
      << "n", "o", "d", "e" >>,
      << "n", "/", "?", "u", "=" >> \o HttpScheme \o << "x" >> }

\* The endpoint values of the model.
Urls == { h \o t : h \in UrlHeads, t \in UrlTails }

\* The configuration is not loaded and no getter has run.
EnvParked ==
    /\ env = [n \in EnvNames |-> Nil]
    /\ dotenv = Nil
    /\ envLog = << >>
    /\ exit = Nil

WsParked == wsRet = Nil

\* main has not started.
MainStart ==
    /\ mpc = "start"
    /\ mRpcURL = EmptyStr
    /\ mAccount = Nil
    /\ mTxs = Nil
    /\ requests = << >>
    /\ mLog = << >>
    /\ rendered = FALSE
    /\ listener = FALSE

\* The listener has not started, over an empty ledger.
PollParked ==
    /\ lpc = "start"
    /\ lHttpURL = EmptyStr
    /\ history = << >>
    /\ hist0 = << >>
    /\ seen = {}
    /\ reported = << >>
    /\ lastPoll = Nil
    /\ pollErrors = 0
    /\ lCancelled = FALSE
    /\ lRet = Nil

\* Callers of LoadDefaultRegistry in the model.
NumCallers == 2

RegCallers == 1 .. NumCallers

\* The package variables as the program starts, and no call begun.
RegStart ==
    /\ registryOnce = "idle"
    /\ registryData = Nil
    /\ registryErr = Nil
    /\ merged = << >>
    /\ rcPos = [c \in RegCallers |-> "idle"]
    /\ rRet = [c \in RegCallers |-> Nil]
    /\ rCalls = [c \in RegCallers |-> 0]
    /\ runs = 0
    /\ fetches = << >>
    /\ loaded = [src \in {"all", "strict", "labs"} |-> Nil]

\* The registry is not used.
RegParked == RegStart /\ rCtx = [c \in RegCallers |-> FALSE]

\* PrintUserTokens has not been called.
PortParked ==
    /\ ppc = "start"
    /\ pItems = Nil
    /\ pHoldings = Nil
    /\ pRet = Nil

\* The other parts of the program are not running.
OtherParked == EnvParked /\ WsParked /\ MainStart /\ PollParked /\ RegParked /\ PortParked

Init == PipeInit /\ CtxInit /\ OtherParked

(* ------------------------ the calling goroutine ------------------------ *)

\* Variant: the listing error is returned without the account.
ListFail_NoAccount ==
    /\ pc = "list"
    /\ listErr' = Some("rpc error")
    /\ ret' = Some([batch |-> Nil,
                    err |-> Some([msg |-> "failed to get signatures",
                                  account |-> "",
                                  cause |-> "rpc error"])])
    /\ pc' = "done"
    /\ UNCHANGED << account, limit, signatures, processCount, i, task, wg,
                    resultChan, closer, resultMap, results, origin, out,
                    panicked, inverted >>

\* GetSignaturesForAddress fails: return nil and the wrapped error.
ListFail ==
    /\ pc = "list"
    /\ listErr' = Some("rpc error")
    /\ ret' = Some([batch |-> Nil,
                    err |-> Some([msg |-> "failed to get signatures for account",
                                  account |-> account,
                                  cause |-> "rpc error"])])
    /\ pc' = "done"
    /\ UNCHANGED << account, limit, signatures, processCount, i, task, wg,
                    resultChan, closer, resultMap, results, origin, out,
                    panicked, inverted >>

\* GetSignaturesForAddress returns sigs: compute processCount, print it,
\* make the channel with capacity processCount.
ListOk(sigs) ==
    /\ pc = "list"
    /\ listErr' = Nil
    /\ signatures' = sigs
    /\ processCount' = ProcessCount(Len(sigs), limit)
    /\ out' = Emit(Line("Count", "", ProcessCount(Len(sigs), limit)))
    /\ resultChan' = [buf |-> << >>,
                      cap |-> ProcessCount(Len(sigs), limit),
                      closed |-> FALSE]
    /\ task' = [j \in Indices(Len(sigs)) |->
                  [st |-> "idle", launches |-> 0, fetches |-> 0,
                   resp |-> NoResponse]]
    /\ i' = 0
    /\ pc' = "launch"
    /\ UNCHANGED << account, limit, wg, closer, resultMap, results, origin,
                    ret, panicked, inverted >>

\* One iteration of `for i := 0; i < processCount; i++`: wg.Add(1) and
\* `go func(index, sig)`; the goroutine starts with its GetTransaction call.
LaunchTask ==
    /\ pc = "launch"
    /\ i < processCount
    /\ wg' = wg + 1
    /\ task' = [task EXCEPT ![i] = [@ EXCEPT !.st = "fetching",
                                             !.launches = @ + 1,
                                             !.fetches = @ + 1]]
    /\ i' = i + 1
    /\ UNCHANGED << account, limit, pc, signatures, processCount, resultChan,
                    closer, resultMap, results, origin, ret, out, panicked,
                    listErr, inverted >>

\* The launch loop ends: start the goroutine that waits and closes, make
\* results and resultMap, enter the collect loop.
LaunchCloser ==
    /\ pc = "launch"
    /\ ~(i < processCount)
    /\ closer' = "waiting"
    /\ results' = << >>
    /\ resultMap' = << >>
    /\ pc' = "collect"
    /\ UNCHANGED << account, limit, signatures, processCount, i, task, wg,
                    resultChan, origin, ret, out, panicked,
                    listErr, inverted >>

\* Variant: the received info is stored under its order of arrival.
CollectRecv_ArrivalOrder ==
    /\ pc = "collect"
    /\ resultChan.buf # << >>
    /\ LET result == Head(resultChan.buf) IN
         resultMap' = IF result.err = Nil
                      THEN MapPut(resultMap, Cardinality(DOMAIN resultMap),
                                  result.info)
                      ELSE resultMap
    /\ resultChan' = [resultChan EXCEPT !.buf = Tail(@)]
    /\ UNCHANGED << account, limit, pc, signatures, processCount, i, task, wg,
                    closer, results, origin, ret, out, panicked,
                    listErr, inverted >>

\* Variant: the received info is kept whether or not it carries an error.
CollectRecv_KeepFailed ==
    /\ pc = "collect"
    /\ resultChan.buf # << >>
    /\ LET result == Head(resultChan.buf) IN
         resultMap' = MapPut(resultMap, result.index, result.info)
    /\ resultChan' = [resultChan EXCEPT !.buf = Tail(@)]
    /\ UNCHANGED << account, limit, pc, signatures, processCount, i, task, wg,
                    closer, results, origin, ret, out, panicked,
                    listErr, inverted >>

\* `for result := range resultChan`: receive one result; keep its info
\* under its index when it carries no error.
CollectRecv ==
    /\ pc = "collect"
    /\ resultChan.buf # << >>
    /\ LET result == Head(resultChan.buf) IN
         resultMap' = IF result.err = Nil
                      THEN MapPut(resultMap, result.index, result.info)
                      ELSE resultMap
    /\ resultChan' = [resultChan EXCEPT !.buf = Tail(@)]
    /\ UNCHANGED << account, limit, pc, signatures, processCount, i, task, wg,
                    closer, results, origin, ret, out, panicked,
                    listErr, inverted >>

\* Variant: the collector stops as soon as it finds the channel empty.
CollectExit_OnEmpty ==
    /\ pc = "collect"
    /\ resultChan.buf = << >>
    /\ i' = 0
    /\ pc' = "assemble"
    /\ UNCHANGED << account, limit, signatures, processCount, task, wg,
                    resultChan, closer, resultMap, results, origin, ret, out,
                    panicked, listErr, inverted >>

\* The range loop ends when the channel is closed and drained.
CollectExit ==
    /\ pc = "collect"
    /\ resultChan.buf = << >>
    /\ resultChan.closed
    /\ i' = 0
    /\ pc' = "assemble"
    /\ UNCHANGED << account, limit, signatures, processCount, task, wg,
                    resultChan, closer, resultMap, results, origin, ret, out,
                    panicked, listErr, inverted >>

\* Variant: the assembly walks the indices downwards.
AssembleStep_Descending ==
    /\ pc = "assemble"
    /\ i < processCount
    /\ LET key == processCount - 1 - i IN
         IF key \in DOMAIN resultMap
         THEN /\ results' = Append(results, resultMap[key])
              /\ origin' = Append(origin, key)
         ELSE UNCHANGED << results, origin >>
    /\ i' = i + 1
    /\ UNCHANGED << account, limit, pc, signatures, processCount, task, wg,
                    resultChan, closer, resultMap, ret, out, panicked,
                    listErr, inverted >>

\* One iteration of `for i := 0; i < processCount; i++` of the assembly:
\* append resultMap[i] when it exists.
AssembleStep ==
    /\ pc = "assemble"
    /\ i < processCount
    /\ IF i \in DOMAIN resultMap
       THEN /\ results' = Append(results, resultMap[i])
            /\ origin' = Append(origin, i)
       ELSE UNCHANGED << results, origin >>
    /\ i' = i + 1
    /\ UNCHANGED << account, limit, pc, signatures, processCount, task, wg,
                    resultChan, closer, resultMap, ret, out, panicked,
                    listErr, inverted >>

\* Variant: a call that assembled no record returns an error.
ReturnBatch_ErrOnEmpty ==
    /\ pc = "assemble"
    /\ ~(i < processCount)
    /\ ret' = IF Len(results) = 0
              THEN Some([batch |-> Nil,
                         err |-> Some([msg |-> "no transactions found",
                                       account |-> account,
                                       cause |-> "empty"])])
              ELSE Some([batch |-> Some([Account |-> account,
                                         Transactions |-> results,
                                         LastFetched |-> "time.Now"]),
                         err |-> Nil])
    /\ pc' = "done"
    /\ UNCHANGED << account, limit, signatures, processCount, i, task, wg,
                    resultChan, closer, resultMap, results, origin, out,
                    panicked, listErr, inverted >>

\* Variant: a batch with a missing record is returned as an error.
ReturnBatch_FailOnPartial ==
    /\ pc = "assemble"
    /\ ~(i < processCount)
    /\ ret' = IF Len(results) < processCount
              THEN Some([batch |-> Nil,
                         err |-> Some([msg |-> "failed to get transactions",
                                       account |-> account,
                                       cause |-> "rpc error"])])
              ELSE Some([batch |-> Some([Account |-> account,
                                         Transactions |-> results,
                                         LastFetched |-> "time.Now"]),
                         err |-> Nil])
    /\ pc' = "done"
    /\ UNCHANGED << account, limit, signatures, processCount, i, task, wg,
                    resultChan, closer, resultMap, results, origin, out,
                    panicked, listErr, inverted >>

\* return &AccountTransactions{Account, Transactions, LastFetched}, nil
ReturnBatch ==
    /\ pc = "assemble"
    /\ ~(i < processCount)
    /\ ret' = Some([batch |-> Some([Account |-> account,
                                    Transactions |-> results,
                                    LastFetched |-> "time.Now"]),
                    err |-> Nil])
    /\ pc' = "done"
    /\ UNCHANGED << account, limit, signatures, processCount, i, task, wg,
                    resultChan, closer, resultMap, results, origin, out,
                    panicked, listErr, inverted >>

(* ------------------------- the fetch goroutines ------------------------ *)

\* Variant: a failed fetch is issued once more before the error is reported.
TaskComplete_Retry(j, r) ==
    /\ j \in DOMAIN task
    /\ task[j].st = "fetching"
    /\ r \in Responses(SigAt(j))
    /\ Len(resultChan.buf) < resultChan.cap \/ resultChan.closed
    /\ IF r.err # Nil /\ task[j].fetches < 2
       THEN /\ task' = [task EXCEPT ![j] = [@ EXCEPT !.fetches = @ + 1]]
            /\ UNCHANGED << out, resultChan, panicked, inverted >>
       ELSE /\ out' = TaskLog(SigAt(j), r)
            /\ IF resultChan.closed
               THEN /\ panicked' = TRUE
                    /\ UNCHANGED resultChan
               ELSE /\ resultChan' = [resultChan EXCEPT
                                        !.buf = Append(@, TaskResult(j, SigAt(j), r))]
                    /\ UNCHANGED panicked
            /\ task' = [task EXCEPT ![j] = [@ EXCEPT !.st = "sent", !.resp = r]]
            /\ inverted' = (inverted \/ \E h \in 0 .. (j - 1) : task[h].st = "fetching")
    /\ UNCHANGED << account, limit, pc, signatures, processCount, i, wg,
                    closer, resultMap, results, origin, ret, listErr >>

\* GetTransaction of index j returns r; the goroutine logs, builds its
\* transactionResult and sends it.  The send blocks while the buffer is
\* full and panics on a closed channel.
TaskComplete(j, r) ==
    /\ j \in DOMAIN task
    /\ task[j].st = "fetching"
    /\ r \in Responses(SigAt(j))
    /\ Len(resultChan.buf) < resultChan.cap \/ resultChan.closed
    /\ out' = TaskLog(SigAt(j), r)
    /\ IF resultChan.closed
       THEN /\ panicked' = TRUE
            /\ UNCHANGED resultChan
       ELSE /\ resultChan' = [resultChan EXCEPT
                                !.buf = Append(@, TaskResult(j, SigAt(j), r))]
            /\ UNCHANGED panicked
    /\ task' = [task EXCEPT ![j] = [@ EXCEPT !.st = "sent", !.resp = r]]
    /\ inverted' = (inverted \/ \E h \in 0 .. (j - 1) : task[h].st = "fetching")
    /\ UNCHANGED << account, limit, pc, signatures, processCount, i, wg,
                    closer, resultMap, results, origin, ret, listErr >>

\* Variant: wg.Done() is called at the end of the success path only.
TaskDone_OnlyOnSuccess(j) ==
    /\ j \in DOMAIN task
    /\ task[j].st = "sent"
    /\ task[j].resp.err = Nil
    /\ wg' = wg - 1
    /\ task' = [task EXCEPT ![j] = [@ EXCEPT !.st = "done"]]
    /\ UNCHANGED << account, limit, pc, signatures, processCount, i,
                    resultChan, closer, resultMap, results, origin, ret, out,
                    panicked, listErr, inverted >>

\* The deferred wg.Done() of goroutine j, after its send.
TaskDone(j) ==
    /\ j \in DOMAIN task
    /\ task[j].st = "sent"
    /\ wg' = wg - 1
    /\ task' = [task EXCEPT ![j] = [@ EXCEPT !.st = "done"]]
    /\ UNCHANGED << account, limit, pc, signatures, processCount, i,
                    resultChan, closer, resultMap, results, origin, ret, out,
                    panicked, listErr, inverted >>

(* ------------------------- the closing goroutine ----------------------- *)

\* go func() { wg.Wait(); close(resultChan) }()
CloserClose ==
    /\ closer = "waiting"
    /\ wg = 0
    /\ closer' = "closed"
    /\ IF resultChan.closed
       THEN /\ panicked' = TRUE
            /\ UNCHANGED resultChan
       ELSE /\ resultChan' = [resultChan EXCEPT !.closed = TRUE]
            /\ UNCHANGED panicked
    /\ UNCHANGED << account, limit, pc, signatures, processCount, i, task, wg,
                    resultMap, results, origin, ret, out, listErr, inverted >>

(* --------------------------- specification ----------------------------- *)

\* The lists of the specifications with fairness.
LiveSigLists == { sigs \in SigLists : Len(sigs) <= MaxLiveSigs }

\* A step of the calling goroutine after the listing.
CallerStep ==
    \/ LaunchTask
    \/ LaunchCloser
    \/ CollectRecv
    \/ CollectExit
    \/ AssembleStep
    \/ ReturnBatch

\* The rest of the program stands still during the call.
PipeFrame == UNCHANGED << ctxVars, otherVars >>

\* A step of one of the goroutines of the call, the listing returning one
\* of lists.
PipeStep(lists) ==
    \/ ~panicked /\ ListFail /\ PipeFrame
    \/ ~panicked /\ (\E sigs \in lists : ListOk(sigs)) /\ PipeFrame
    \/ ~panicked /\ LaunchTask /\ PipeFrame
    \/ ~panicked /\ LaunchCloser /\ PipeFrame
    \/ ~panicked /\ CollectRecv /\ PipeFrame
    \/ ~panicked /\ CollectExit /\ PipeFrame
    \/ ~panicked /\ AssembleStep /\ PipeFrame
    \/ ~panicked /\ ReturnBatch /\ PipeFrame
    \/ ~panicked /\ PipeFrame /\ \E j \in DOMAIN task :
                                   \E r \in Responses(SigAt(j)) : TaskComplete(j, r)
    \/ ~panicked /\ PipeFrame /\ \E j \in DOMAIN task : TaskDone(j)
    \/ ~panicked /\ CloserClose /\ PipeFrame

\* The caller's context becomes done (cancel or deadline) during the call.
Cancel ==
    /\ ~cancelled
    /\ ~panicked
    /\ pc # "done"
    /\ cancelled' = TRUE
    /\ cancelSeen' = { j \in DOMAIN task : task[j].st = "fetching" }
    /\ UNCHANGED << pipeVars, otherVars >>

\* Variant: the fetch is given a context of its own that is never done.
FetchCtxDone_Background(j) == FALSE

\* The context passed to GetTransaction of index j is done.
FetchCtxDone(j) == cancelled

\* GetTransaction of index j returns because its context is done.
FetchEnds(j) ==
    /\ FetchCtxDone(j)
    /\ ~panicked
    /\ \E r \in Responses(SigAt(j)) : TaskComplete(j, r)
    /\ UNCHANGED << ctxVars, otherVars >>

\* The call under a context that is never done, as main makes it.
Next == PipeStep(SigLists)

Spec == Init /\ [][Next]_vars

\* The call with short lists.
LiveNext == PipeStep(LiveSigLists)

\* The goroutines of the call are scheduled: the caller, each wg.Done and
\* the closing goroutine take their next step.
Scheduling ==
    /\ WF_vars(~panicked /\ CallerStep /\ UNCHANGED << ctxVars, otherVars >>)
    /\ \A j \in Indices(MaxSigs) :
         WF_vars(~panicked /\ TaskDone(j) /\ UNCHANGED << ctxVars, otherVars >>)
    /\ WF_vars(~panicked /\ CloserClose /\ UNCHANGED << ctxVars, otherVars >>)

\* Every GetTransaction call returns.
FetchesReturn ==
    \A j \in Indices(MaxSigs) :
        WF_vars(/\ ~panicked
                /\ j \in DOMAIN task
                /\ \E r \in Responses(SigAt(j)) : TaskComplete(j, r)
                /\ UNCHANGED << ctxVars, otherVars >>)

\* The call with scheduled goroutines and an upstream that answers every
\* fetch.
LiveSpec == Init /\ [][LiveNext]_vars /\ Scheduling /\ FetchesReturn

\* The call under a context that may become done.
CancelNext == LiveNext \/ Cancel

\* The call with scheduled goroutines and an upstream that may leave a
\* fetch unanswered; a fetch whose context is done returns.
CancelSpec ==
    /\ Init
    /\ [][CancelNext]_vars
    /\ Scheduling
    /\ \A j \in Indices(MaxSigs) : WF_vars(j \in DOMAIN task /\ FetchEnds(j))

(* ------------------------ configuration getters ------------------------ *)

\* os.Getenv: the value of name, the empty string when it is not set.
Getenv(e, name) == IF e[name] = Nil THEN EmptyStr ELSE e[name][1]

\* godotenv.Load(): every name of the .env file that the environment does
\* not hold yet is set; names the environment holds, even with an empty
\* value, are kept.  With an unreadable file nothing changes.
GodotenvLoad(e, d) ==
    IF d = Nil
    THEN e
    ELSE [n \in EnvNames |-> IF e[n] = Nil THEN d[n] ELSE e[n]]

\* The warning the getters log when godotenv.Load returns an error.
LoadLog(lg, d) ==
    IF d = Nil THEN Append(lg, "Warning: Error loading .env file") ELSE lg

\* s[:n] and s[n:] in Go.
Take(s, n) == SubSeq(s, 1, n)

Drop(s, n) == SubSeq(s, n + 1, Len(s))

\* Variant: the http scheme is cut one character short of its length.
DeriveWS_ShortCut(httpURL) ==
    IF Len(httpURL) >= 8 /\ Take(httpURL, 8) = HttpsScheme
    THEN WssScheme \o Drop(httpURL, 8)
    ELSE IF Len(httpURL) >= 7 /\ Take(httpURL, 7) = HttpScheme
         THEN WsScheme \o Drop(httpURL, 6)
         ELSE httpURL

\* The derivation at the end of GetWSURL: https:// becomes wss://, http://
\* becomes ws://, a ws or wss URL and anything else is returned as it is.
DeriveWS(httpURL) ==
    IF Len(httpURL) >= 8 /\ Take(httpURL, 8) = HttpsScheme
    THEN WssScheme \o Drop(httpURL, 8)
    ELSE IF Len(httpURL) >= 7 /\ Take(httpURL, 7) = HttpScheme
         THEN WsScheme \o Drop(httpURL, 7)
         ELSE IF Len(httpURL) >= 6 /\ Take(httpURL, 6) = WssScheme
              THEN httpURL
              ELSE IF Len(httpURL) >= 5 /\ Take(httpURL, 5) = WsScheme
                   THEN httpURL
                   ELSE httpURL

\* GetWSURL(): load .env, return WS_URL when it is not empty, end the
\* process when RPC_URL is empty too, else derive the URL from RPC_URL.
GetWSURL ==
    /\ wsRet = Nil
    /\ exit = Nil
    /\ LET e == GodotenvLoad(env, dotenv)
           wsURL == Getenv(e, "WS_URL")
           httpURL == Getenv(e, "RPC_URL")
       IN  /\ env' = e
           /\ envLog' = LoadLog(envLog, dotenv)
           /\ IF wsURL # EmptyStr
              THEN wsRet' = Some(wsURL) /\ exit' = exit
              ELSE IF httpURL = EmptyStr
                   THEN /\ exit' = Some("WS_URL or RPC_URL environment variable is required")
                        /\ wsRet' = wsRet
                   ELSE wsRet' = Some(DeriveWS(httpURL)) /\ exit' = exit
    /\ UNCHANGED dotenv

\* The values a variable of the environment may have when GetWSURL is
\* called: not set, set and empty, or an endpoint value.
WsEnvValues == {Nil, Some(EmptyStr)} \cup { Some(u) : u \in Urls }

\* The .env files of the GetWSURL model: unreadable, empty, or naming one
\* of two endpoints for RPC_URL or for WS_URL.
WsDotenvs ==
    { Nil, [n \in EnvNames |-> Nil],
      [n \in EnvNames |-> IF n = "RPC_URL" THEN Some(HttpsScheme \o << "e" >>) ELSE Nil],
      [n \in EnvNames |-> IF n = "WS_URL" THEN Some(WsScheme \o << "e" >>) ELSE Nil] }

\* The pipeline is not running.
PipeParked == PipeInit /\ limit = 0

WsInit ==
    /\ PipeParked
    /\ CtxInit
    /\ MainStart
    /\ PollParked
    /\ RegParked
    /\ PortParked
    /\ env \in { e \in [EnvNames -> WsEnvValues] : e["WALLET_ADDRESS"] = Nil }
    /\ dotenv \in WsDotenvs
    /\ envLog = << >>
    /\ exit = Nil
    /\ wsRet = Nil

WsNext ==
    \/ GetWSURL /\ UNCHANGED << pipeVars, ctxVars, mainVars, pollVars, regVars, portVars >>

\* One call of GetWSURL from every configuration.
WsSpec == WsInit /\ [][WsNext]_vars

(* --------------------------------- main --------------------------------- *)

\* Most records a fetch returns to main in the model.
MaxMainTxs == 2

\* A wallet address that decodes to a public key, and one that does not.
GoodWallet == << "W", "a", "1" >>

BadWallet == << "0", "O" >>

\* solana.PublicKeyFromBase58 succeeds on pubKey.
IsPublicKey(pubKey) == pubKey = GoodWallet

\* The zero solana.PublicKey returned with the error.
ZeroKey == EmptyStr

\* Variant: the getter returns the value without looking at it.
RequireEnv_Unchecked(e, name) == [value |-> Getenv(e, name), fatal |-> Nil]

\* The check shared by GetRPCURL and GetWalletAddress: the value of name,
\* and the log.Fatal message when it is empty.
RequireEnv(e, name) ==
    [value |-> Getenv(e, name),
     fatal |-> IF Getenv(e, name) = EmptyStr
               THEN Some(name \o " environment variable is required")
               ELSE Nil]

\* rpcURL := GetRPCURL(); client and services are built from it.
MainGetRPCURL ==
    /\ mpc = "start"
    /\ LET e == GodotenvLoad(env, dotenv)
           got == RequireEnv(e, "RPC_URL")
       IN  /\ env' = e
           /\ envLog' = LoadLog(envLog, dotenv)
           /\ IF got.fatal # Nil
              THEN exit' = got.fatal /\ mpc' = "fatal" /\ mRpcURL' = mRpcURL
              ELSE exit' = exit /\ mpc' = "wallet" /\ mRpcURL' = got.value
    /\ UNCHANGED << dotenv, mAccount, mTxs, requests, mLog, rendered, listener >>

\* accountsToMonitor := GetWalletAddress(), the start line, and
\* GetAccountFromPublicKey: an address that does not decode is logged and
\* main goes on with the zero key.
MainGetWallet ==
    /\ mpc = "wallet"
    /\ LET e == GodotenvLoad(env, dotenv)
           got == RequireEnv(e, "WALLET_ADDRESS")
       IN  /\ env' = e
           /\ envLog' = LoadLog(envLog, dotenv)
           /\ IF got.fatal # Nil
              THEN /\ exit' = got.fatal
                   /\ mpc' = "fatal"
                   /\ UNCHANGED << mAccount, mLog >>
              ELSE /\ exit' = exit
                   /\ mpc' = "fetch"
                   /\ IF IsPublicKey(got.value)
                      THEN /\ mAccount' = Some(got.value)
                           /\ mLog' = Append(mLog, "Solana Transaction Monitor Starting...")
                      ELSE /\ mAccount' = Some(ZeroKey)
                           /\ mLog' = mLog \o << "Solana Transaction Monitor Starting...",
                                                 "Invalid account address" >>
    /\ UNCHANGED << dotenv, mRpcURL, mTxs, requests, rendered, listener >>

\* accountTxs, err := FetchAccountTransactions(ctx, account, LIMIT): the
\* listing request, then either the error (logged) or k fetch requests and
\* a batch of n records.
MainFetch(failed, k, n) ==
    /\ mpc = "fetch"
    /\ n <= k
    /\ IF failed
       THEN /\ requests' = Append(requests, "getSignaturesForAddress")
            /\ mTxs' = Some([batch |-> Nil, err |-> Some("failed to get signatures")])
            /\ mLog' = Append(mLog, "Error fetching transactions")
       ELSE /\ requests' = requests \o << "getSignaturesForAddress" >>
                                    \o [x \in 1 .. k |-> "getTransaction"]
            /\ mTxs' = Some([batch |-> Some([Account |-> mAccount[1], Count |-> n]),
                             err |-> Nil])
            /\ mLog' = mLog
    /\ mpc' = "render"
    /\ UNCHANGED << envVars, mRpcURL, mAccount, rendered, listener >>

\* if len(accountTxs.Transactions) > 0 { AnalyzeTransactions } else { log }:
\* reading the field of a nil accountTxs panics.
MainRender ==
    /\ mpc = "render"
    /\ IF mTxs[1].batch = Nil
       THEN /\ mpc' = "panic"
            /\ exit' = Some("panic: nil pointer dereference")
            /\ UNCHANGED << rendered, mLog >>
       ELSE /\ mpc' = "portfolio"
            /\ exit' = exit
            /\ IF mTxs[1].batch[1].Count > 0
               THEN rendered' = TRUE /\ mLog' = Append(mLog, "Transaction Analysis")
               ELSE rendered' = rendered /\ mLog' = Append(mLog, "No recent transactions found")
    /\ UNCHANGED << env, dotenv, envLog, mRpcURL, mAccount, mTxs, requests, listener >>

\* portfolioService.PrintUserTokens(ctx, account): it reads RPC_URL again,
\* posts getTokenAccountsByOwner, and its error is logged.
MainPortfolio(ok) ==
    /\ mpc = "portfolio"
    /\ LET e == GodotenvLoad(env, dotenv)
           got == RequireEnv(e, "RPC_URL")
       IN  /\ env' = e
           /\ envLog' = LoadLog(envLog, dotenv)
           /\ IF got.fatal # Nil
              THEN exit' = got.fatal /\ mpc' = "fatal" /\ UNCHANGED << requests, mLog >>
              ELSE /\ exit' = exit
                   /\ mpc' = "end"
                   /\ requests' = Append(requests, "getTokenAccountsByOwner")
                   /\ mLog' = IF ok THEN Append(mLog, "User Portfolio")
                                    ELSE Append(mLog, "Error printing user tokens")
    /\ UNCHANGED << dotenv, mRpcURL, mAccount, mTxs, rendered, listener >>

\* The end of main: it returns, or (the main with the listener) starts the
\* listener goroutine and blocks in select {}.
MainEnd(withListener) ==
    /\ mpc = "end"
    /\ mpc' = IF withListener THEN "blocked" ELSE "returned"
    /\ listener' = withListener
    /\ UNCHANGED << envVars, mRpcURL, mAccount, mTxs, requests, mLog, rendered >>

\* The values of RPC_URL and WALLET_ADDRESS main may start with.
MainEnvs ==
    { e \in [EnvNames -> {Nil, Some(EmptyStr), Some(HttpsScheme \o << "n" >>),
                          Some(GoodWallet), Some(BadWallet)}] :
        /\ e["RPC_URL"] \in {Nil, Some(EmptyStr), Some(HttpsScheme \o << "n" >>)}
        /\ e["WALLET_ADDRESS"] \in {Nil, Some(EmptyStr), Some(GoodWallet), Some(BadWallet)}
        /\ e["WS_URL"] = Nil }

\* The .env files main may start with: unreadable, naming RPC_URL only, or
\* naming RPC_URL and WALLET_ADDRESS.
MainDotenvs ==
    { Nil,
      [n \in EnvNames |-> IF n = "RPC_URL" THEN Some(HttpScheme \o << "e" >>) ELSE Nil],
      [n \in EnvNames |-> IF n = "RPC_URL" THEN Some(HttpScheme \o << "e" >>)
                          ELSE IF n = "WALLET_ADDRESS" THEN Some(GoodWallet) ELSE Nil] }

MainInit ==
    /\ PipeParked
    /\ CtxInit
    /\ MainStart
    /\ env \in MainEnvs
    /\ dotenv \in MainDotenvs
    /\ envLog = << >>
    /\ exit = Nil
    /\ WsParked
    /\ PollParked
    /\ RegParked
    /\ PortParked

\* The rest of the program stands still while main is followed alone.
MainFrame == UNCHANGED << pipeVars, ctxVars, wsVars, pollVars, regVars, portVars >>

MainNext ==
    \/ MainGetRPCURL /\ MainFrame
    \/ MainGetWallet /\ MainFrame
    \/ MainFrame /\ \E failed \in BOOLEAN : \E k \in 0 .. MaxMainTxs : \E n \in 0 .. k :
                      MainFetch(failed, k, n)
    \/ MainRender /\ MainFrame
    \/ MainFrame /\ \E ok \in BOOLEAN : MainPortfolio(ok)
    \/ MainFrame /\ \E withListener \in BOOLEAN : MainEnd(withListener)

\* One run of main from every configuration.
MainSpec == MainInit /\ [][MainNext]_vars

(* ------------------------------ the listener ----------------------------- *)

\* Most signatures on the ledger in the model.
MaxHistory == 3

\* Most "poll error" lines counted.
MaxPollErrors == 2

\* The set of the elements of a sequence.
Range(seq) == { seq[k] : k \in 1 .. Len(seq) }

\* The ledger's list of n signatures, newest first.
HistoryOf(n) == [x \in 1 .. n |-> SigName(n - x + 1)]

\* httpURL as ListenWalletTransactions derives it from wsURL.
ListenHTTP(wsURL) ==
    IF Len(wsURL) >= 6 /\ Take(wsURL, 6) = WssScheme
    THEN HttpsScheme \o Drop(wsURL, 6)
    ELSE IF Len(wsURL) >= 5 /\ Take(wsURL, 5) = WsScheme
         THEN HttpScheme \o Drop(wsURL, 5)
         ELSE wsURL

\* The endpoints the listener is started with.
ListenUrls == { WssScheme \o << "n" >>, WsScheme \o << "n" >>, HttpsScheme \o << "n" >> }

\* Variant: the loop runs from index 1 up to k.
RECURSIVE PollScan_Forward(_, _, _)
PollScan_Forward(sigs, k, sn) ==
    IF k = 0 THEN << >>
    ELSE IF sigs[k] \in sn \cup Range(PollScan_Forward(sigs, k - 1, sn))
         THEN PollScan_Forward(sigs, k - 1, sn)
         ELSE Append(PollScan_Forward(sigs, k - 1, sn), sigs[k])

\* The loop over sigs from index k down to 1: the signatures logged as
\* observed, given the seen set sn at index k.
RECURSIVE PollScan(_, _, _)
PollScan(sigs, k, sn) ==
    IF k = 0 THEN << >>
    ELSE IF sigs[k] \in sn
         THEN PollScan(sigs, k - 1, sn)
         ELSE << sigs[k] >> \o PollScan(sigs, k - 1, sn \cup {sigs[k]})

\* The start of ListenWalletTransactions: the client, and the seeding call,
\* whose error is dropped. A call under a done context fails.
ListenStart(wsURL, ok) ==
    /\ lpc = "start"
    /\ ok => ~lCancelled
    /\ lHttpURL' = ListenHTTP(wsURL)
    /\ hist0' = history
    /\ seen' = IF ok THEN seen \cup Range(history) ELSE seen
    /\ lpc' = "loop"
    /\ UNCHANGED << history, reported, lastPoll, pollErrors, lCancelled, lRet >>

\* Variant: the poll logs the new signatures without adding them to seen.
PollOk_NoMark ==
    /\ lpc = "loop"
    /\ ~lCancelled
    /\ LET news == PollScan(history, Len(history), seen)
       IN  /\ reported' = reported \o news
           /\ seen' = seen
           /\ lastPoll' = Some([sigs |-> history, before |-> seen, news |-> news])
    /\ UNCHANGED << lpc, lHttpURL, history, hist0, pollErrors, lCancelled, lRet >>

\* case <-ticker.C with a listing that succeeds.
PollOk ==
    /\ lpc = "loop"
    /\ ~lCancelled
    /\ LET news == PollScan(history, Len(history), seen)
       IN  /\ reported' = reported \o news
           /\ seen' = seen \cup Range(news)
           /\ lastPoll' = Some([sigs |-> history, before |-> seen, news |-> news])
    /\ UNCHANGED << lpc, lHttpURL, history, hist0, pollErrors, lCancelled, lRet >>

\* Variant: a failed listing ends the listener with the error.
PollFail_Return ==
    /\ lpc = "loop"
    /\ pollErrors < MaxPollErrors
    /\ pollErrors' = pollErrors + 1
    /\ lastPoll' = Nil
    /\ lpc' = "returned"
    /\ lRet' = Some("poll error")
    /\ UNCHANGED << lHttpURL, history, hist0, seen, reported, lCancelled >>

\* case <-ticker.C with a listing that fails: "poll error" and continue.
PollFail ==
    /\ lpc = "loop"
    /\ pollErrors < MaxPollErrors
    /\ pollErrors' = pollErrors + 1
    /\ lastPoll' = Nil
    /\ UNCHANGED << lpc, lHttpURL, history, hist0, seen, reported, lCancelled, lRet >>

\* case <-ctx.Done(): return ctx.Err().
ListenCtxDone ==
    /\ lpc = "loop"
    /\ lCancelled
    /\ lRet' = Some("context canceled")
    /\ lpc' = "returned"
    /\ UNCHANGED << lHttpURL, history, hist0, seen, reported, lastPoll, pollErrors,
                    lCancelled >>

\* The ledger: a new transaction mentions the wallet.
NewTx ==
    /\ Len(history) < MaxHistory
    /\ history' = << SigName(Len(history) + 1) >> \o history
    /\ UNCHANGED << lpc, lHttpURL, hist0, seen, reported, lastPoll, pollErrors,
                    lCancelled, lRet >>

\* The caller cancels the listener's context.
ListenCancel ==
    /\ ~lCancelled
    /\ lCancelled' = TRUE
    /\ UNCHANGED << lpc, lHttpURL, history, hist0, seen, reported, lastPoll,
                    pollErrors, lRet >>

PollInit ==
    /\ PipeParked
    /\ CtxInit
    /\ lpc = "start"
    /\ lHttpURL = EmptyStr
    /\ history \in { HistoryOf(n) : n \in 0 .. MaxHistory - 1 }
    /\ hist0 = << >>
    /\ seen = {}
    /\ reported = << >>
    /\ lastPoll = Nil
    /\ pollErrors = 0
    /\ lCancelled = FALSE
    /\ lRet = Nil
    /\ EnvParked
    /\ WsParked
    /\ MainStart
    /\ RegParked
    /\ PortParked

\* The rest of the program stands still while the listener is followed.
PollFrame ==
    UNCHANGED << pipeVars, ctxVars, envVars, wsVars, mainVars, regVars, portVars >>

PollNext ==
    \/ PollFrame /\ \E wsURL \in ListenUrls : \E ok \in BOOLEAN : ListenStart(wsURL, ok)
    \/ PollOk /\ PollFrame
    \/ PollFail /\ PollFrame
    \/ ListenCtxDone /\ PollFrame
    \/ NewTx /\ PollFrame
    \/ ListenCancel /\ PollFrame

\* One listener over a growing ledger.
PollSpec == PollInit /\ [][PollNext]_vars

(* ---------------------------- the token registry -------------------------- *)

\* Most entries of a source's list in the model.
MaxItems == 2

\* Most calls one caller makes.
MaxCalls == 2

\* The addresses of the lists' entries; an entry may have none.
Addresses == { EmptyStr, << "m", "1" >>, << "m", "2" >> }

\* The three sources, in the order they are requested.
Sources == << "all", "strict", "labs" >>

\* The lists a source may answer with: the entry at position x carries the
\* source and x, so that entries can be told apart.
SourceLists(src) ==
    UNION { { [x \in 1 .. n |-> [Address |-> f[x], Symbol |-> src, Name |-> ToString(x)]] :
                f \in [1 .. n -> Addresses] } : n \in 0 .. MaxItems }

\* m with key k bound to v, as m[k] = v on a Go map.
RegPut(m, k, v) == [x \in DOMAIN m \cup {k} |-> IF x = k THEN v ELSE m[x]]

\* The empty Go map.
EmptyMap == [x \in {} |-> Nil]

\* The map loadJupiterList builds from the first n items: an item without
\* an address is skipped, a later item replaces an earlier one.
RECURSIVE JupiterMap(_, _)
JupiterMap(items, n) ==
    IF n = 0 THEN EmptyMap
    ELSE IF items[n].Address = EmptyStr
         THEN JupiterMap(items, n - 1)
         ELSE RegPut(JupiterMap(items, n - 1), items[n].Address, items[n])

\* The map loadSolanaLabsList builds from the first n tokens: every token
\* is stored under its address.
RECURSIVE LabsMap(_, _)
LabsMap(tokens, n) ==
    IF n = 0 THEN EmptyMap
    ELSE RegPut(LabsMap(tokens, n - 1), tokens[n].Address, tokens[n])

\* The map a source's loader returns for the list it received.
LoadedMap(src, list) ==
    IF src = "labs" THEN LabsMap(list, Len(list)) ELSE JupiterMap(list, Len(list))

\* for k, v := range m { merged[k] = v }
MergeAll(into, m) ==
    [x \in DOMAIN into \cup DOMAIN m |-> IF x \in DOMAIN m THEN m[x] ELSE into[x]]

\* Variant: an entry of a later source replaces the entry already merged.
MergeMissing_Overwrite(into, m) ==
    [x \in DOMAIN into \cup DOMAIN m |-> IF x \in DOMAIN m THEN m[x] ELSE into[x]]

\* for k, v := range m { if _, ok := merged[k]; !ok { merged[k] = v } }
MergeMissing(into, m) ==
    [x \in DOMAIN into \cup DOMAIN m |-> IF x \in DOMAIN into THEN into[x] ELSE m[x]]

\* Variant: a caller that finds the function running runs it too.
OnceEnter_CheckThenRun(state) ==
    IF state = "done" THEN "ret" ELSE "all"

\* registryOnce.Do as a caller enters it: past a finished run it returns,
\* the first caller runs the function, and a caller that finds it running
\* waits for it.
OnceEnter(state) ==
    IF state = "done" THEN "ret"
    ELSE IF state = "idle" THEN "all"
         ELSE "wait"

\* Caller c calls LoadDefaultRegistry and enters registryOnce.Do.
RegCall(c) ==
    /\ rcPos[c] = "idle"
    /\ rCalls[c] < MaxCalls
    /\ rCalls' = [rCalls EXCEPT ![c] = @ + 1]
    /\ rcPos' = [rcPos EXCEPT ![c] = OnceEnter(registryOnce)]
    /\ IF OnceEnter(registryOnce) = "all"
       THEN /\ registryOnce' = "running"
            /\ runs' = runs + 1
            /\ merged' = EmptyMap
       ELSE UNCHANGED << registryOnce, runs, merged >>
    /\ UNCHANGED << registryData, registryErr, rCtx, rRet, fetches, loaded >>

\* The successor of a source in the function.
AfterSource(src) ==
    IF src = "all" THEN "strict" ELSE IF src = "strict" THEN "labs" ELSE "finish"

\* The running caller c requests source src: the request fails (it does
\* under a done context), or answers with a list, which is merged.
RegLoad(c, src, ok, list) ==
    /\ rcPos[c] = src
    /\ ok => ~rCtx[c]
    /\ fetches' = Append(fetches, src)
    /\ merged' = IF ~ok THEN merged
                 ELSE IF src = "all" THEN MergeAll(merged, LoadedMap(src, list))
                      ELSE MergeMissing(merged, LoadedMap(src, list))
    /\ loaded' = [loaded EXCEPT ![src] = IF ok THEN Some(LoadedMap(src, list)) ELSE Nil]
    /\ rcPos' = [rcPos EXCEPT ![c] = AfterSource(src)]
    /\ UNCHANGED << registryOnce, registryData, registryErr, rCtx, rRet, rCalls, runs >>

\* Variant: an empty merge leaves the Once open, so that a later call runs
\* the function again.
RegFinish_RetryOnError(c) ==
    /\ rcPos[c] = "finish"
    /\ IF DOMAIN merged = {}
       THEN /\ registryErr' = Some("no token registry sources available")
            /\ registryData' = registryData
            /\ registryOnce' = "idle"
       ELSE /\ registryData' = Some(merged)
            /\ registryErr' = registryErr
            /\ registryOnce' = "done"
    /\ rcPos' = [rcPos EXCEPT ![c] = "ret"]
    /\ UNCHANGED << merged, rCtx, rRet, rCalls, runs, fetches, loaded >>

\* The end of the function: the error for an empty merge, else the map;
\* Do marks the Once done as the function returns.
RegFinish(c) ==
    /\ rcPos[c] = "finish"
    /\ IF DOMAIN merged = {}
       THEN /\ registryErr' = Some("no token registry sources available")
            /\ registryData' = registryData
       ELSE /\ registryData' = Some(merged)
            /\ registryErr' = registryErr
    /\ registryOnce' = "done"
    /\ rcPos' = [rcPos EXCEPT ![c] = "ret"]
    /\ UNCHANGED << merged, rCtx, rRet, rCalls, runs, fetches, loaded >>

\* A caller waiting in Do leaves it once the function has returned.
RegWake(c) ==
    /\ rcPos[c] = "wait"
    /\ registryOnce = "done"
    /\ rcPos' = [rcPos EXCEPT ![c] = "ret"]
    /\ UNCHANGED << registryOnce, registryData, registryErr, merged, rCtx, rRet,
                    rCalls, runs, fetches, loaded >>

\* return registryData, registryErr
RegReturn(c) ==
    /\ rcPos[c] = "ret"
    /\ rRet' = [rRet EXCEPT ![c] = Some([data |-> registryData, err |-> registryErr])]
    /\ rcPos' = [rcPos EXCEPT ![c] = "idle"]
    /\ UNCHANGED << registryOnce, registryData, registryErr, merged, rCtx, rCalls,
                    runs, fetches, loaded >>

RegInit ==
    /\ PipeParked
    /\ CtxInit
    /\ RegStart
    /\ rCtx \in [RegCallers -> BOOLEAN]
    /\ EnvParked
    /\ WsParked
    /\ MainStart
    /\ PollParked
    /\ PortParked

\* The rest of the program stands still while the registry is followed.
RegFrame ==
    UNCHANGED << pipeVars, ctxVars, envVars, wsVars, mainVars, pollVars, portVars >>

RegNext ==
    \/ RegFrame /\ \E c \in RegCallers : RegCall(c)
    \/ RegFrame /\ \E c \in RegCallers : \E k \in 1 .. 3 : \E ok \in BOOLEAN :
                     \E list \in SourceLists(Sources[k]) : RegLoad(c, Sources[k], ok, list)
    \/ RegFrame /\ \E c \in RegCallers : RegFinish(c)
    \/ RegFrame /\ \E c \in RegCallers : RegWake(c)
    \/ RegFrame /\ \E c \in RegCallers : RegReturn(c)

\* Concurrent callers of LoadDefaultRegistry.
RegSpec == RegInit /\ [][RegNext]_vars

(* ------------------------------ the portfolio ---------------------------- *)

\* Most token accounts in a response of the model.
MaxAccounts == 2

\* The fraction digits kept when an amount is read as a number.
AmtDigits == 4

\* The mint the code names itself, and another one.
WsolMint == << "S", "o", "1", "1", "2" >>

PortMints == { WsolMint, << "m", "1" >> }

\* The uiAmountString values of the model.
Amounts ==
    { EmptyStr,
      << "0" >>,
      << "0", ".", "0" >>,
      << "0", ".", "0", "0" >>,
      << "0", ".", "0", "0", "0" >>,
      << "0", ".", "0", "0", "0", "0" >>,
      << "1" >>,
      << "0", ".", "5" >> }

\* The token accounts a response may list.
PortItems == [Mint : PortMints, Amt : Amounts, Decimals : {6}]

PortResponses == UNION { [1 .. n -> PortItems] : n \in 0 .. MaxAccounts }

\* What LoadDefaultRegistry gives PrintUserTokens: the error, or a map.
PortRegistries ==
    { Nil,
      Some([k \in {<< "m", "1" >>} |-> [Address |-> k, Symbol |-> "all", Name |-> "1"]]) }

\* The amounts the loop skips.
SkippedAmounts ==
    { EmptyStr,
      << "0" >>,
      << "0", ".", "0" >>,
      << "0", ".", "0", "0" >>,
      << "0", ".", "0", "0", "0" >> }

\* The TokenHolding built for item with the registry map.
Holding(item, registry) ==
    [Mint |-> item.Mint,
     UiAmount |-> item.Amt,
     Decimals |-> item.Decimals,
     Name |-> IF item.Mint \in DOMAIN registry THEN registry[item.Mint].Name
              ELSE IF item.Mint = WsolMint THEN "Wrapped SOL" ELSE "",
     Symbol |-> IF item.Mint \in DOMAIN registry THEN registry[item.Mint].Symbol
                ELSE IF item.Mint = WsolMint THEN "wSOL" ELSE ""]

\* The holdings the loop has collected after the first n items.
RECURSIVE Holdings(_, _, _)
Holdings(items, n, registry) ==
    IF n = 0 THEN << >>
    ELSE IF items[n].Amt \in SkippedAmounts
         THEN Holdings(items, n - 1, registry)
         ELSE Append(Holdings(items, n - 1, registry), Holding(items[n], registry))

DigitOf(ch) == CHOOSE d \in 0 .. 9 : ToString(d) = ch

RECURSIVE DigitsValue(_)
DigitsValue(ds) ==
    IF ds = << >> THEN 0
    ELSE DigitsValue(SubSeq(ds, 1, Len(ds) - 1)) * 10 + DigitOf(ds[Len(ds)])

RECURSIVE Pow10(_)
Pow10(n) == IF n = 0 THEN 1 ELSE 10 * Pow10(n - 1)

\* The place of the point in amt, 0 if it has none.
DotAt(amt) ==
    IF \E k \in 1 .. Len(amt) : amt[k] = "."
    THEN CHOOSE k \in 1 .. Len(amt) : amt[k] = "."
    ELSE 0

\* strconv.ParseFloat of amt, in units of 10^-AmtDigits; 0 with the error
\* the code drops for the empty string.
ParseFloat(amt) ==
    IF DotAt(amt) = 0
    THEN DigitsValue(amt) * Pow10(AmtDigits)
    ELSE DigitsValue(Take(amt, DotAt(amt) - 1)) * Pow10(AmtDigits)
         + DigitsValue(Drop(amt, DotAt(amt))) * Pow10(AmtDigits - (Len(amt) - DotAt(amt)))

\* The orders sort.Slice may leave hs in: by amount descending, equal
\* amounts in any order.
SortedOrders(hs) ==
    { [x \in 1 .. Len(hs) |-> hs[p[x]]] :
        p \in { q \in [1 .. Len(hs) -> 1 .. Len(hs)] :
                  /\ \A a, b \in 1 .. Len(hs) : q[a] = q[b] => a = b
                  /\ \A a, b \in 1 .. Len(hs) :
                       a < b => ParseFloat(hs[q[a]].UiAmount) >= ParseFloat(hs[q[b]].UiAmount) } }

\* PrintUserTokens up to the decoded response: GetRPCURL, the POST, and the
\* returns on a failed request and on an error in the response.
PortRequest(outcome, items) ==
    /\ ppc = "start"
    /\ LET e == GodotenvLoad(env, dotenv)
           got == RequireEnv(e, "RPC_URL")
       IN  /\ env' = e
           /\ envLog' = LoadLog(envLog, dotenv)
           /\ IF got.fatal # Nil
              THEN /\ exit' = got.fatal
                   /\ ppc' = "fatal"
                   /\ UNCHANGED << pItems, pRet >>
              ELSE /\ exit' = exit
                   /\ IF outcome = "ok"
                      THEN /\ pItems' = Some(items)
                           /\ ppc' = "decoded"
                           /\ pRet' = pRet
                      ELSE /\ pRet' = Some(outcome)
                           /\ ppc' = "returned"
                           /\ pItems' = pItems
    /\ UNCHANGED << dotenv, pHoldings >>

\* The rest of PrintUserTokens: the registry (an error gives the empty
\* map), the loop over the accounts, the sort and the formatter.
PortCollect(reg, sorted) ==
    /\ ppc = "decoded"
    /\ sorted \in SortedOrders(Holdings(pItems[1], Len(pItems[1]),
                                        IF reg = Nil THEN EmptyMap ELSE reg[1]))
    /\ pHoldings' = Some(sorted)
    /\ pRet' = Some("nil")
    /\ ppc' = "returned"
    /\ UNCHANGED << envVars, pItems >>

PortInit ==
    /\ PipeParked
    /\ CtxInit
    /\ PortParked
    /\ env \in { [n \in EnvNames |-> IF n = "RPC_URL" THEN v ELSE Nil] :
                   v \in {Nil, Some(HttpsScheme \o << "n" >>)} }
    /\ dotenv = Nil
    /\ envLog = << >>
    /\ exit = Nil
    /\ WsParked
    /\ MainStart
    /\ PollParked
    /\ RegParked

\* The rest of the program stands still while PrintUserTokens is followed.
PortFrame == UNCHANGED << pipeVars, ctxVars, wsVars, mainVars, pollVars, regVars >>

\* All the holdings any response can give.
PortHoldingLists ==
    UNION { SortedOrders(Holdings(items, Len(items), IF reg = Nil THEN EmptyMap ELSE reg[1])) :
              items \in PortResponses, reg \in PortRegistries }

PortNext ==
    \/ PortFrame /\ \E outcome \in {"ok", "rpc http request failed", "rpc error"} :
                      \E items \in PortResponses : PortRequest(outcome, items)
    \/ PortFrame /\ \E reg \in PortRegistries : \E sorted \in PortHoldingLists :
                      PortCollect(reg, sorted)

\* One call of PrintUserTokens for every response.
PortSpec == PortInit /\ [][PortNext]_vars

(* ------------------------ vocabulary of the properties ----------------- *)

Min(a, b) == IF a < b THEN a ELSE b

\* processCount as the specification states it.
SpecCount(n, lim) == IF lim > 0 THEN Min(n, lim) ELSE n

\* The listing call has returned without an error.
ListingOk == pc # "list" /\ listErr = Nil

\* FetchAccountTransactions has returned.
Returned == ret # Nil

\* ... and returned a batch.
ReturnedBatch == Returned /\ ret[1].batch # Nil

RetErr == ret[1].err

BatchTxs == ret[1].batch[1].Transactions

\* The indices for which a task is due.
Launched == Indices(processCount)

\* The launched indices whose fetch returned without / with an error.
Succeeded == { j \in Launched : task[j].st \in {"sent", "done"} /\ task[j].resp.err = Nil }

Failed == { j \in Launched : task[j].st \in {"sent", "done"} /\ task[j].resp.err # Nil }

Ascending(seq) == \A k1, k2 \in 1 .. Len(seq) : k1 < k2 => seq[k1] < seq[k2]

SigsDistinct ==
    \A k1, k2 \in 1 .. Len(signatures) :
        k1 # k2 => signatures[k1].Signature # signatures[k2].Signature

(* ------------------------------ properties ----------------------------- *)

\* C1: whatever the order in which the fetch tasks complete, the records
\* assembled so far, and the records of the returned batch, stand in
\* strictly ascending order of the input index they came from.
C1_OrderedOutput ==
    /\ Len(origin) = Len(results)
    /\ \A k \in 1 .. Len(origin) :
         origin[k] \in DOMAIN resultMap /\ results[k] = resultMap[origin[k]]
    /\ Ascending(origin)
    /\ ReturnedBatch => BatchTxs = results

\* C1 witness: a returned batch of at least two records, index 0 first, of a
\* run in which a task reported while a lower index was still in flight.
C1_Witness ==
    /\ pc = "done"
    /\ ReturnedBatch
    /\ inverted
    /\ Len(BatchTxs) >= 2
    /\ origin[1] = 0
    /\ task[0].st = "done"

\* C2: in a returned batch a failed index has no entry (the sequence is
\* not null-filled), every succeeded index of [0, processCount) has one, and
\* the entries keep their relative input order.
C2_FailedOmitted ==
    ReturnedBatch =>
        /\ \A j \in Failed : j \notin Range(origin)
        /\ \A j \in Succeeded : j \in Range(origin)
        /\ Len(BatchTxs) = Cardinality(Succeeded)
        /\ \A k \in 1 .. Len(BatchTxs) : BatchTxs[k] # ZeroInfo
        /\ Ascending(origin)

\* C2 witness: [S0 ok, S1 fail, S2 ok] with limit 3 returns the records of
\* S0 and S2.
C2_Witness ==
    /\ pc = "done"
    /\ ReturnedBatch
    /\ limit = 3
    /\ Len(signatures) = 3
    /\ Succeeded = {0, 2}
    /\ Failed = {1}
    /\ origin = << 0, 2 >>
    /\ Len(BatchTxs) = 2
    /\ RetErr = Nil

\* C3: once the listing succeeded, the call returns a batch and no error
\* whatever the fetches and decodes did; no goroutine panics, every launched
\* task runs to its end and every succeeded sibling of a failed task is in
\* the batch.
C3_PartialSuccess ==
    /\ ~panicked
    /\ (Returned /\ listErr = Nil) => (ret[1].batch # Nil /\ RetErr = Nil)
    /\ (pc = "done" /\ listErr = Nil) =>
         /\ Returned
         /\ \A j \in Launched : task[j].st = "done"
         /\ \A j \in Succeeded : j \in Range(origin)

\* C3 witness: every fetch of at least two failed, and an empty batch was
\* returned without an error.
C3_Witness ==
    /\ pc = "done"
    /\ listErr = Nil
    /\ processCount >= 2
    /\ Failed = Launched
    /\ ReturnedBatch
    /\ BatchTxs = << >>
    /\ RetErr = Nil

\* C4: when the listing fails, the call returns no batch and an error
\* naming the account, and no fetch task is launched.
C4_ListingFailure ==
    listErr # Nil =>
        /\ pc = "done"
        /\ Returned
        /\ ret[1].batch = Nil
        /\ RetErr # Nil
        /\ RetErr[1].account = account
        /\ task = << >>
        /\ wg = 0
        /\ closer = "none"
        /\ resultChan.buf = << >>

\* C4 witness: the call has returned after a failed listing.
C4_Witness ==
    /\ listErr # Nil
    /\ pc = "done"
    /\ Returned
    /\ ret[1].batch = Nil

\* C5: processCount is min(N, limit) for a positive limit and N otherwise.
C5_ProcessCount ==
    ListingOk => processCount = SpecCount(Len(signatures), limit)

\* C5 witness: a positive limit below the list length cut the processed
\* range, and the call returned.
C5_Witness ==
    /\ ListingOk
    /\ pc = "done"
    /\ limit > 0
    /\ limit < Len(signatures)
    /\ processCount = limit

\* C6: no index is launched twice, no index outside [0, processCount) is
\* launched, a launched task issues one fetch, and once the launch loop is
\* over each index of [0, processCount) has been launched exactly once.
C6_OneTaskPerIndex ==
    /\ \A j \in DOMAIN task :
         /\ task[j].launches <= 1
         /\ task[j].fetches = task[j].launches
         /\ j >= processCount => (task[j].launches = 0 /\ task[j].st = "idle")
    /\ (ListingOk /\ pc # "launch") =>
         \A j \in Launched : task[j].launches = 1 /\ task[j].fetches = 1
    /\ wg <= processCount

\* C6 witness: limit 2 with 3 signatures launched indices 0 and 1 only, and
\* index 0 failed its only fetch.
C6_Witness ==
    /\ pc = "done"
    /\ limit = 2
    /\ Len(signatures) = 3
    /\ task[0].launches = 1 /\ task[0].fetches = 1
    /\ task[1].launches = 1
    /\ task[2].launches = 0
    /\ 0 \in Failed

\* C7: every assembled record comes from an index of the requested leading
\* sub-range [0, min(N, limit)) (all of [0, N) without a positive limit)
\* and carries the signature of that index.
C7_WithinRange ==
    /\ \A k \in 1 .. Len(origin) :
         /\ origin[k] \in Indices(SpecCount(Len(signatures), limit))
         /\ results[k].Signature = signatures[origin[k] + 1].Signature
    /\ ReturnedBatch =>
         /\ Len(BatchTxs) = Len(origin)
         /\ Len(BatchTxs) <= SpecCount(Len(signatures), limit)

\* C7 witness: limit 1 with 3 signatures returned the single record of
\* index 0.
C7_Witness ==
    /\ pc = "done"
    /\ ReturnedBatch
    /\ limit = 1
    /\ Len(signatures) = 3
    /\ origin = << 0 >>
    /\ Len(BatchTxs) = 1

\* C8 as stated: for every input list, no record appears more than once in
\* the returned batch.
C8_NoRecordTwice ==
    ReturnedBatch =>
        \A k1, k2 \in 1 .. Len(BatchTxs) :
            k1 # k2 => BatchTxs[k1] # BatchTxs[k2]

\* C8 amended: no input index contributes more than one record, and when
\* the input signatures are pairwise distinct no record appears twice.
C8_NoIndexTwice ==
    /\ \A k1, k2 \in 1 .. Len(origin) : k1 # k2 => origin[k1] # origin[k2]
    /\ (ReturnedBatch /\ SigsDistinct) =>
         \A k1, k2 \in 1 .. Len(BatchTxs) :
             k1 # k2 => BatchTxs[k1] # BatchTxs[k2]

\* C8 witness: a batch of at least two records of pairwise distinct
\* signatures.
C8_Witness ==
    /\ pc = "done"
    /\ ReturnedBatch
    /\ SigsDistinct
    /\ Len(BatchTxs) >= 2
    /\ Cardinality(Range(origin)) = Len(BatchTxs)

\* C9: the channel is closed only after every launched task has sent and
\* finished; the collector leaves its loop only with the channel closed and
\* drained, so that assembly starts with every report received (each
\* succeeded index is in the map, each failed one is not) and none arrives
\* later.
C9_JoinBarrier ==
    /\ ~panicked
    /\ resultChan.closed =>
         /\ closer = "closed"
         /\ wg = 0
         /\ \A j \in Launched : task[j].st = "done"
    /\ (pc = "assemble" \/ (pc = "done" /\ listErr = Nil)) =>
         /\ resultChan.closed
         /\ resultChan.buf = << >>
         /\ \A j \in Launched :
              /\ task[j].st = "done"
              /\ (task[j].resp.err = Nil) <=> (j \in DOMAIN resultMap)
    /\ Len(origin) > 0 => pc \in {"assemble", "done"}

\* C9 witness: assembly is about to start for at least two tasks that
\* reported out of index order.
C9_Witness ==
    /\ pc = "assemble"
    /\ i = 0
    /\ processCount >= 2
    /\ inverted
    /\ resultChan.closed
    /\ Succeeded # {}

\* C10: a fetch that succeeded with an undecodable payload yields a record
\* at its ordered position, with the fetched metadata and without a decoded
\* transaction, and the call returns no error.
C10_DecodeFailureKept ==
    ReturnedBatch =>
        \A j \in Launched :
            task[j].resp.payload = "undecodable" =>
                LET k == 1 + Cardinality({ h \in Succeeded : h < j }) IN
                    /\ k <= Len(BatchTxs)
                    /\ BatchTxs[k].Signature = signatures[j + 1].Signature
                    /\ BatchTxs[k].Meta = task[j].resp.meta
                    /\ BatchTxs[k].Meta # Nil
                    /\ BatchTxs[k].Transaction = Nil
                    /\ RetErr = Nil

\* C10 witness: index 0 decoded, index 1 did not decode, index 2 failed; the
\* batch holds the records of 0 and 1, the second without a transaction.
C10_Witness ==
    /\ pc = "done"
    /\ ReturnedBatch
    /\ processCount = 3
    /\ task[0].resp.payload = "decodable"
    /\ task[1].resp.payload = "undecodable"
    /\ task[2].resp.err # Nil
    /\ Len(BatchTxs) = 2
    /\ BatchTxs[1].Transaction # Nil
    /\ BatchTxs[2].Transaction = Nil
    /\ BatchTxs[2].Meta # Nil

\* The record the specification expects for index j: the fields of the
\* j-th signature reference and the metadata and decoded payload of j's own
\* response.
ExpectedInfo(j) ==
    [Signature |-> signatures[j + 1].Signature,
     Slot |-> signatures[j + 1].Slot,
     BlockTime |-> signatures[j + 1].BlockTime,
     Meta |-> task[j].resp.meta,
     Transaction |-> IF task[j].resp.payload = "decodable"
                     THEN Some([txOf |-> signatures[j + 1].Signature])
                     ELSE Nil]

\* The response of index j carried no error.
RespOk(j) == task[j].resp.err = Nil

\* The indices of the requested sub-range whose response carried no error,
\* in input order: a function of the signature list, the limit and the
\* responses only.
ExpectedIndices ==
    SelectSeq([k \in 1 .. SpecCount(Len(signatures), limit) |-> k - 1], RespOk)

ExpectedRecords ==
    [k \in 1 .. Len(ExpectedIndices) |-> ExpectedInfo(ExpectedIndices[k])]

\* C12: the returned record sequence is a function of the signature list,
\* the limit and the per-index responses alone, so two runs that agree on
\* these return the same sequence whatever their scheduling.
C12_Deterministic ==
    ReturnedBatch => BatchTxs = ExpectedRecords

\* C12 witness: a returned batch of a run in which three tasks reported,
\* not in index order, one of them with an error.
C12_Witness ==
    /\ pc = "done"
    /\ ReturnedBatch
    /\ processCount = 3
    /\ inverted
    /\ Failed # {}
    /\ Len(BatchTxs) = 2

\* C13: the batch holds one record per succeeded index of
\* [0, processCount), each with the signature, slot and block time of its
\* own signature reference and the metadata of its own fetch, and the
\* batch's account is the queried account.
C13_OwnFields ==
    ReturnedBatch =>
        /\ ret[1].batch[1].Account = account
        /\ Len(BatchTxs) = Len(origin)
        /\ Range(origin) = Succeeded
        /\ Cardinality(Succeeded) = Len(BatchTxs)
        /\ \A k \in 1 .. Len(BatchTxs) :
             LET j == origin[k] IN
                 /\ BatchTxs[k].Signature = signatures[j + 1].Signature
                 /\ BatchTxs[k].Slot = signatures[j + 1].Slot
                 /\ BatchTxs[k].BlockTime = signatures[j + 1].BlockTime
                 /\ BatchTxs[k].Meta = task[j].resp.meta
                 /\ BatchTxs[k].Meta = Some([metaOf |-> signatures[j + 1].Signature])

\* C13 witness: a batch whose second record belongs to the second of two
\* distinct signatures and carries its block time.
C13_Witness ==
    /\ pc = "done"
    /\ ReturnedBatch
    /\ SigsDistinct
    /\ Len(BatchTxs) >= 2
    /\ origin[2] = 1
    /\ BatchTxs[2].BlockTime # Nil
    /\ BatchTxs[2].Signature # BatchTxs[1].Signature

\* C15: a report in the channel is tagged with the index of a task that has
\* sent and carries that task's outcome; no two reports in the channel
\* carry the same index, none carries an index whose slot of the map is
\* already written, a task that has not sent has no report and no slot,
\* a task that has sent before collection starts has exactly one report,
\* and a written slot holds the record of its own succeeded index.
C15_OneReportPerTask ==
    LET buf == resultChan.buf IN
        /\ \A k \in 1 .. Len(buf) :
             /\ buf[k].index \in Launched
             /\ task[buf[k].index].st \in {"sent", "done"}
             /\ buf[k].err = task[buf[k].index].resp.err
             /\ buf[k].index \notin DOMAIN resultMap
        /\ \A k1, k2 \in 1 .. Len(buf) : k1 # k2 => buf[k1].index # buf[k2].index
        /\ \A j \in DOMAIN task :
             task[j].st \in {"idle", "fetching"} =>
                 /\ \A k \in 1 .. Len(buf) : buf[k].index # j
                 /\ j \notin DOMAIN resultMap
        /\ \A j \in Launched :
             (task[j].st \in {"sent", "done"} /\ pc = "launch") =>
                 Cardinality({ k \in 1 .. Len(buf) : buf[k].index = j }) = 1
        /\ \A j \in DOMAIN resultMap :
             /\ j \in Succeeded
             /\ resultMap[j].Signature = signatures[j + 1].Signature

\* C15 witness: three reports wait in the channel, one of each path (fetch
\* error, decode failure, success), under three different indices.
C15_Witness ==
    /\ Len(resultChan.buf) = 3
    /\ { resultChan.buf[k].index : k \in 1 .. 3 } = {0, 1, 2}
    /\ \E j \in Launched : task[j].resp.err # Nil
    /\ \E j \in Launched : task[j].resp.payload = "undecodable"
    /\ \E j \in Launched : task[j].resp.payload = "decodable"

\* The listing returned an empty list.
EmptyListed == ListingOk /\ Len(signatures) = 0

\* C11: after an empty listing, whatever the limit, no task is launched,
\* the call reaches its return, and what it returns is a batch with an empty
\* record sequence and no error.
C11_EmptyList ==
    /\ [](EmptyListed =>
            /\ processCount = 0
            /\ task = << >>
            /\ wg = 0
            /\ resultChan.buf = << >>
            /\ pc = "done" =>
                 (ReturnedBatch /\ BatchTxs = << >> /\ RetErr = Nil))
    /\ EmptyListed ~> (pc = "done" /\ Returned)

\* C11 witness: the call returned an empty batch after an empty listing
\* under a negative limit.
C11_Witness ==
    /\ EmptyListed
    /\ limit < 0
    /\ pc = "done"
    /\ ReturnedBatch
    /\ BatchTxs = << >>
    /\ closer = "closed"

\* C14: once the context is done after a successful listing, every launched
\* fetch ends and reports, and the call returns - also when the upstream
\* would otherwise never answer.
C14_CancelEnds ==
    (cancelled /\ ListingOk)
        ~> (pc = "done" /\ Returned /\ \A j \in Launched : task[j].st = "done")

\* C14 witness: the context became done with two fetches in flight, and the
\* call returned with both tasks finished.
C14_Witness ==
    /\ cancelled
    /\ cancelSeen = {0, 1}
    /\ pc = "done"
    /\ ReturnedBatch
    /\ \A j \in Launched : task[j].st = "done"

\* C20: with scheduled goroutines and an upstream that answers every fetch,
\* a call whose listing succeeded returns; a task that is about to send
\* finds room in the channel and the channel open, the channel never holds
\* more than its capacity of processCount reports, it is closed by the one
\* step of the closing goroutine, and nothing panics.
C20_Terminates ==
    /\ [](~panicked)
    /\ [](/\ Len(resultChan.buf) <= resultChan.cap
          /\ ListingOk => resultChan.cap = processCount)
    /\ [](\A j \in DOMAIN task :
            task[j].st = "fetching" =>
                (Len(resultChan.buf) < resultChan.cap /\ ~resultChan.closed))
    /\ [](resultChan.closed <=> closer = "closed")
    /\ ListingOk ~> (pc = "done" /\ Returned)

\* C20 witness: a call with two tasks, one of them failed, has returned
\* with the channel closed and drained.
C20_Witness ==
    /\ ListingOk
    /\ pc = "done"
    /\ Returned
    /\ processCount = 2
    /\ Failed # {}
    /\ Succeeded # {}
    /\ resultChan.closed
    /\ resultChan.buf = << >>
    /\ wg = 0

\* The values os.Getenv yields once the .env file is loaded.
EffectiveEnv(name) == Getenv(GodotenvLoad(env, dotenv), name)

\* u is head followed by some rest, and v is newHead followed by that rest.
Rescheme(u, head, v, newHead) ==
    \E n \in 0 .. Len(u) :
        /\ u = head \o SubSeq(u, Len(u) - n + 1, Len(u))
        /\ v = newHead \o SubSeq(u, Len(u) - n + 1, Len(u))

\* u begins with head.
Begins(u, head) == \E n \in 0 .. Len(u) : u = head \o SubSeq(u, Len(u) - n + 1, Len(u))

\* C17: GetWSURL returns a non-empty WS_URL unchanged; otherwise, for a
\* non-empty RPC_URL, an https:// URL comes back with wss:// in place of the
\* scheme and the rest unchanged, an http:// URL with ws://, and any other
\* URL as it is.
C17_SchemeSubstitution ==
    wsRet # Nil =>
        LET ws == EffectiveEnv("WS_URL")
            rpc == EffectiveEnv("RPC_URL")
            got == wsRet[1]
        IN  /\ ws # EmptyStr => got = ws
            /\ ws = EmptyStr =>
                 /\ rpc # EmptyStr
                 /\ Begins(rpc, HttpsScheme) => Rescheme(rpc, HttpsScheme, got, WssScheme)
                 /\ Begins(rpc, HttpScheme) => Rescheme(rpc, HttpScheme, got, WsScheme)
                 /\ (~Begins(rpc, HttpsScheme) /\ ~Begins(rpc, HttpScheme)) => got = rpc

\* C17 witness: without a WS_URL, an http:// RPC_URL whose query holds a
\* second http:// came back with only its scheme replaced.
C17_Witness ==
    /\ wsRet # Nil
    /\ EffectiveEnv("WS_URL") = EmptyStr
    /\ EffectiveEnv("RPC_URL") = HttpScheme \o << "n", "/", "?", "u", "=" >> \o HttpScheme \o << "x" >>
    /\ wsRet[1] = WsScheme \o << "n", "/", "?", "u", "=" >> \o HttpScheme \o << "x" >>

\* A required value is missing or empty once the .env file is loaded.
MissingRequired ==
    \/ EffectiveEnv("RPC_URL") = EmptyStr
    \/ EffectiveEnv("WALLET_ADDRESS") = EmptyStr

\* C16: with RPC_URL or WALLET_ADDRESS missing or empty, main issues no
\* request and gets no further than the getter of the missing value, where
\* the process ends with a fatal message.
C16_FatalBeforeRequests ==
    MissingRequired =>
        /\ requests = << >>
        /\ mpc \in {"start", "wallet", "fatal"}
        /\ EffectiveEnv("RPC_URL") = EmptyStr => mpc \in {"start", "fatal"}
        /\ mpc = "fatal" => exit # Nil
        /\ ~rendered
        /\ ~listener

\* C16 witness: with an RPC_URL but an empty WALLET_ADDRESS that the .env
\* file cannot replace, the process has ended in GetWalletAddress without a
\* request.
C16_Witness ==
    /\ mpc = "fatal"
    /\ exit = Some("WALLET_ADDRESS environment variable is required")
    /\ env["WALLET_ADDRESS"] = Some(EmptyStr)
    /\ dotenv # Nil
    /\ EffectiveEnv("RPC_URL") # EmptyStr
    /\ requests = << >>

\* C18 as stated: no signature that was on the ledger's list when listening
\* started is ever logged as observed. It fails when the seeding call
\* returns an error: the seen set stays empty and the first poll that
\* succeeds logs the whole list.
C18_OnlyNewReported ==
    \A k \in 1 .. Len(reported) : reported[k] \notin Range(hist0)

\* The outcome of the finished run, as the package variables hold it.
RunOutcome == [data |-> registryData, err |-> registryErr]

\* C19: the fetch-and-merge begins at most once, each source is requested
\* at most once, no call returns before that run has finished, every value
\* a call has returned is the outcome of that run, and nothing is stored
\* before the run finishes.
C19_RunsOnce ==
    /\ runs <= 1
    /\ Len(fetches) <= 3
    /\ \A a, b \in 1 .. Len(fetches) : fetches[a] = fetches[b] => a = b
    /\ registryOnce # "done" => registryData = Nil /\ registryErr = Nil
    /\ \A c \in RegCallers :
         /\ rcPos[c] = "ret" => registryOnce = "done"
         /\ rRet[c] # Nil => registryOnce = "done" /\ rRet[c] = Some(RunOutcome)

\* C19 witness: two callers called concurrently, one ran the merge while
\* the other waited, and both have returned the merged map, one of them
\* from a second call as well.
C19_Witness ==
    /\ runs = 1
    /\ registryData # Nil
    /\ \A c \in RegCallers : rRet[c] = Some(RunOutcome)
    /\ \E c \in RegCallers : rCalls[c] = MaxCalls /\ rcPos[c] = "idle"
    /\ fetches = Sources

\* C21 as stated: after FetchAccountTransactions has returned an error, main
\* has logged it, does not read the fields of the absent batch, renders no
\* report and goes on to the portfolio step. It fails: main evaluates
\* len(accountTxs.Transactions) on the nil batch and panics.
C21_ErrorThenPortfolio ==
    (mTxs # Nil /\ mTxs[1].err # Nil) =>
        /\ "Error fetching transactions" \in Range(mLog)
        /\ ~rendered
        /\ mpc \in {"render", "portfolio", "end", "returned", "blocked"}

\* No element occurs twice in seq.
Distinct(seq) == \A a, b \in 1 .. Len(seq) : seq[a] = seq[b] => a = b

\* The signatures logged as observed by the step.
NewlyReported == Range(SubSeq(reported', Len(reported) + 1, Len(reported')))

\* C22: over the listener's lifetime no signature is logged as observed
\* twice, the seen set never loses a member, the start adds to it nothing or
\* the listed signatures and logs nothing, and every later step adds to it
\* exactly the signatures it logs.
C22_ReportedOnce ==
    [][/\ Distinct(reported')
       /\ seen \subseteq seen'
       /\ Len(reported) <= Len(reported')
       /\ SubSeq(reported', 1, Len(reported)) = reported
       /\ lpc = "start" => /\ reported' = reported
                           /\ seen' \in {seen, Range(history)}
       /\ lpc # "start" => seen' \ seen = NewlyReported]_vars

\* C22 witness: a poll has returned signatures that were logged by an
\* earlier poll, and seeded ones, and logged none of them again.
C22_Witness ==
    /\ lastPoll # Nil
    /\ lastPoll[1].news = << >>
    /\ Range(lastPoll[1].sigs) \cap Range(reported) # {}
    /\ seen \ Range(reported) # {}
    /\ Len(reported) >= 2

\* The place of x in seq.
Pos(seq, x) == CHOOSE k \in 1 .. Len(seq) : seq[k] = x

\* C23: the signatures one poll logs are exactly the returned signatures
\* that were not in the seen set, each once, in the reverse of their order
\* in the returned list, and they are the last ones logged; the list being
\* newest first, an older one is logged before a newer one.
C23_ReverseOrder ==
    lastPoll # Nil =>
        LET sigs == lastPoll[1].sigs
            news == lastPoll[1].news
        IN  /\ Range(news) = Range(sigs) \ lastPoll[1].before
            /\ Distinct(news)
            /\ \A a, b \in 1 .. Len(news) :
                 a < b => Pos(sigs, news[a]) > Pos(sigs, news[b])
            /\ Len(news) <= Len(reported)
            /\ SubSeq(reported, Len(reported) - Len(news) + 1, Len(reported)) = news

\* C23 witness: one poll has logged two new signatures out of a list that
\* also held a seen one.
C23_Witness ==
    /\ lastPoll # Nil
    /\ Len(lastPoll[1].news) >= 2
    /\ Range(lastPoll[1].sigs) \cap lastPoll[1].before # {}

\* C24: a step that logs "poll error" logs no signature, leaves the seen
\* set as it was and leaves the listener in its loop, waiting for the next
\* tick; the listener returns only from the loop under a done context, with
\* the context's error, and never resumes.
C24_FailedPollContinues ==
    [][/\ pollErrors' # pollErrors =>
            /\ reported' = reported
            /\ seen' = seen
            /\ lpc' = "loop"
            /\ lRet' = Nil
       /\ (lpc' = "returned" /\ lpc # "returned") =>
            /\ lpc = "loop"
            /\ lCancelled
            /\ lRet' = Some("context canceled")
       /\ lRet # Nil => lRet' = lRet /\ lpc' = "returned"
       /\ (lRet' # Nil) = (lpc' = "returned")]_vars

\* C24 witness: a poll failed, a later poll logged a new signature, and the
\* listener has then returned under its done context.
C24_Witness ==
    /\ pollErrors >= 1
    /\ lastPoll # Nil
    /\ lastPoll[1].news # << >>
    /\ lpc = "returned"
    /\ lRet = Some("context canceled")

\* The places, in the order of precedence, of the loaded sources whose map
\* has mint k.
Providers(k) ==
    { x \in 1 .. 3 : loaded[Sources[x]] # Nil /\ k \in DOMAIN loaded[Sources[x]][1] }

\* The least member of a non-empty set of numbers.
Least(S) == CHOOSE x \in S : \A y \in S : x <= y

\* C25: the merge holds exactly the mints of the sources that loaded, each
\* with the entry of the first of all, strict and labs that has it; a source
\* that did not load adds nothing; and once the run has finished the error
\* is set exactly when the merge is empty, the map being stored otherwise.
C25_Precedence ==
    /\ DOMAIN merged = { k \in Addresses : Providers(k) # {} }
    /\ \A k \in DOMAIN merged : merged[k] = loaded[Sources[Least(Providers(k))]][1][k]
    /\ registryOnce = "done" =>
         /\ (registryErr # Nil) = (DOMAIN merged = {})
         /\ registryData = IF DOMAIN merged = {} THEN Nil ELSE Some(merged)
    /\ \A c \in RegCallers :
         rRet[c] # Nil => (rRet[c][1].err # Nil) = (DOMAIN merged = {})

\* C25 witness: all three sources loaded, one mint is in the first list and
\* in another and has the first list's entry, another mint is in the second
\* and third lists only and has the second's, and the map was returned.
C25_Witness ==
    /\ registryOnce = "done"
    /\ \A x \in 1 .. 3 : loaded[Sources[x]] # Nil
    /\ \E k1, k2 \in DOMAIN merged :
         /\ 1 \in Providers(k1)
         /\ Providers(k1) # {1}
         /\ merged[k1].Symbol = "all"
         /\ Providers(k2) = {2, 3}
         /\ merged[k2].Symbol = "strict"
    /\ \E c \in RegCallers : rRet[c] # Nil /\ rRet[c][1].data = Some(merged)

\* What a call returns after a run that found no source.
NoSources == [data |-> Nil, err |-> Some("no token registry sources available")]

\* C26: once the run has ended with the no-sources error, no step requests
\* a source or begins a run again, the error and the nil map stay, and
\* every call that returns, under whatever context, returns that error and
\* no map.
C26_FirstOutcomeStays ==
    [][registryErr # Nil =>
         /\ registryOnce = "done" /\ registryOnce' = "done"
         /\ fetches' = fetches
         /\ runs' = runs
         /\ registryErr' = registryErr
         /\ registryData = Nil /\ registryData' = Nil
         /\ \A c \in RegCallers : rRet'[c] # Nil => rRet'[c] = Some(NoSources)]_vars

\* C26 witness: a caller's context was done, the run ended with the error
\* after three failed requests, and a caller whose own context is live has
\* since called twice and got the error both times.
C26_Witness ==
    /\ registryErr # Nil
    /\ Len(fetches) = 3
    /\ \E c1, c2 \in RegCallers :
         /\ rCtx[c1]
         /\ rCalls[c1] >= 1
         /\ ~rCtx[c2]
         /\ rCalls[c2] = MaxCalls
         /\ rcPos[c2] = "idle"
         /\ rRet[c2] = Some(NoSources)

\* amt is written with zeros only, with at most one point.
DenotesZero(amt) ==
    /\ \E k \in 1 .. Len(amt) : amt[k] = "0"
    /\ \A k \in 1 .. Len(amt) : amt[k] \in {"0", "."}
    /\ \A a, b \in 1 .. Len(amt) : (amt[a] = "." /\ amt[b] = ".") => a = b

\* amt is written as a number that is not zero.
DenotesNonZero(amt) ==
    /\ amt # EmptyStr
    /\ \A k \in 1 .. Len(amt) : amt[k] \in {"."} \cup { ToString(d) : d \in 0 .. 9 }
    /\ \E k \in 1 .. Len(amt) : amt[k] \notin {"0", "."}

\* C27 as stated: no holding passed to the formatter has an amount that
\* denotes zero, and every token account with a non-zero amount is among
\* the holdings. It fails for a zero written with more than three fraction
\* digits, which the comparison with the five literals lets through.
C27_OnlyNonZero ==
    pHoldings # Nil =>
        /\ \A k \in 1 .. Len(pHoldings[1]) : ~DenotesZero(pHoldings[1][k].UiAmount)
        /\ \A x \in 1 .. Len(pItems[1]) :
             DenotesNonZero(pItems[1][x].Amt) =>
                \E k \in 1 .. Len(pHoldings[1]) :
                    /\ pHoldings[1][k].Mint = pItems[1][x].Mint
                    /\ pHoldings[1][k].UiAmount = pItems[1][x].Amt

====
